---- MODULE Spec2Model ----
(***************************************************************************)
(* A model of the risk and execution-sizing core of the back-tester:       *)
(*   - MicrostructureStrategy / EnhancedSmaCross (microstructure.py,       *)
(*     enchanced_bot.py): the per-bar strategy loop with its gate;         *)
(*   - VolatilityTargetSizer (risk.py);                                    *)
(*   - estimate_highlow_spread (execution.py).                             *)
(* Several specifications share the module: Spec (the strategy loop),      *)
(* SpecSizer (one sizing request), SpecSpread (one spread estimate),       *)
(* SpecCalib (one calibration and the start of the run) and SpecInput      *)
(* (the entry points on malformed input); each leaves the variables of     *)
(* the others at their idle values.                                        *)
(* Floating-point values are modelled by exact rationals <<n, d>>, d > 0,  *)
(* a volatility by the rational under its square root, and the values the  *)
(* code can produce that are no number by the tagged values NaN, NoValue.   *)
(***************************************************************************)
EXTENDS Integers, Sequences, FiniteSets, TLC

VARIABLES
    phase,              \* strategy loop: "broker" | "strategy" (position in one bar)
    nbars,              \* bars delivered to next() so far
    micro_cfg,          \* MicrostructureConfig of the run
    has_spread_indicator, \* hasattr(self, "spread_indicator")
    bars_since_trade,   \* self._bars_since_trade
    position,           \* self.position.size
    pending,            \* orders submitted by next(), executed on the following bar
    notifications,      \* trade notifications the engine still has to deliver
    bar,                \* the current bar's indicator values
    last_call,          \* the handler that ran last, and what it was given
    since_close,        \* history: next() calls since the last closed-trade notification
    processed,          \* history: next() calls since the last close or construction
    fill_gap,           \* history: next() calls since the last closing fill
    open_gap,           \* history: fill_gap at the last opening fill that followed a close
    sz_in,              \* sizer: the request (history of closes, equity, parameters)
    sz_out,             \* sizer: the returned size, "pending" before the call
    sp_in,              \* spread: the bars, each <<High, Low>>
    sp_out,             \* spread: the estimated series, "pending" before the call
    cal_in,             \* calibration: the frame and the arguments
    cal_out,            \* calibration: how the call ended and what it returned
    cal_run,            \* run_backtest after the calibration: the broker's settings
    csv_in,             \* prepare_csv: the rows read, each <<datetime, value>>
    csv_out,            \* prepare_csv: the rows written
    vol_in,             \* _liquidity_ok: volume[0] and vol_ma[0]
    vol_out             \* _liquidity_ok: the answer

vars == << phase, nbars, micro_cfg, has_spread_indicator, bars_since_trade,
           position, pending, notifications, bar, last_call, since_close,
           processed, fill_gap, open_gap, sz_in, sz_out, sp_in, sp_out,
           cal_in, cal_out, cal_run, csv_in, csv_out, vol_in, vol_out >>

loop_vars == << phase, nbars, micro_cfg, has_spread_indicator, bars_since_trade,
                position, pending, notifications, bar, last_call, since_close,
                processed, fill_gap, open_gap >>

sizer_vars == << sz_in, sz_out >>

spread_vars == << sp_in, sp_out >>

calib_vars == << cal_in, cal_out, cal_run >>

input_vars == << csv_in, csv_out, vol_in, vol_out >>

(***************************************************************************)
(* Bounds of the model.                                                    *)
(***************************************************************************)
MaxBars == 7
MaxHolding == 3
MaxSize == 1

\* A value the code may hold that is a number, NaN or None; v is 0 unless tag = "num".
Num(x) == [ tag |-> "num", v |-> x ]

NaN == [ tag |-> "nan", v |-> 0 ]

NoValue == [ tag |-> "none", v |-> 0 ]

IsNum(x) == x.tag = "num"

Abs(x) == IF x < 0 THEN -x ELSE x

Sign(x) == IF x < 0 THEN -1 ELSE IF x > 0 THEN 1 ELSE 0

Min(a, b) == IF a <= b THEN a ELSE b

(***************************************************************************)
(* Exact rationals <<n, d>>, kept in lowest terms with d > 0.              *)
(***************************************************************************)
RECURSIVE GCD(_, _)
GCD(a, b) == IF b = 0 THEN a ELSE GCD(b, a % b)

RNorm(a) ==
    LET n == IF a[2] < 0 THEN -a[1] ELSE a[1]
        d == Abs(a[2])
        g == GCD(Abs(n), d)
    IN  << n \div g, d \div g >>

RInt(x) == << x, 1 >>

RAdd(a, b) == RNorm(<< a[1] * b[2] + b[1] * a[2], a[2] * b[2] >>)

RSub(a, b) == RNorm(<< a[1] * b[2] - b[1] * a[2], a[2] * b[2] >>)

RMul(a, b) == RNorm(<< a[1] * b[1], a[2] * b[2] >>)

\* a / b for b # 0
RDiv(a, b) == RNorm(<< a[1] * b[2], a[2] * b[1] >>)

RLeq(a, b) == a[1] * b[2] <= b[1] * a[2]

RLt(a, b) == a[1] * b[2] < b[1] * a[2]

REq(a, b) == a[1] * b[2] = b[1] * a[2]

RECURSIVE RSum(_, _)
RSum(seq, i) == IF i > Len(seq) THEN RInt(0) ELSE RAdd(seq[i], RSum(seq, i + 1))

\* A rational-valued result that may be NaN or None.
RNum(x) == [ tag |-> "num", v |-> x ]

RNaN == [ tag |-> "nan", v |-> << 0, 1 >> ]

RNone == [ tag |-> "none", v |-> << 0, 1 >> ]

\* floor(sqrt(x)) for an integer x >= 0, by bisection on lo <= root < hi
RECURSIVE ISqrtIn(_, _, _)
ISqrtIn(x, lo, hi) ==
    IF hi - lo <= 1 THEN lo
    ELSE LET mid == (lo + hi) \div 2
         IN  IF mid * mid <= x THEN ISqrtIn(x, mid, hi) ELSE ISqrtIn(x, lo, mid)

ISqrt(x) == ISqrtIn(x, 0, Min(x, 46340) + 1)

(***************************************************************************)
(* MicrostructureStrategy: the gate.                                       *)
(***************************************************************************)
\* The values a bar can show the gate.  volume and vol_ma are integers, the
\* spread indicator's value is in thousandths or NaN.
Volumes == { <<0, 0>>, <<29, 100>>, <<30, 100>> }

Spreads == { NaN, Num(1), Num(3) }

Crossovers == { -1, 0, 1 }

Bars == [ volume : {v[1] : v \in Volumes}, vol_ma : {v[2] : v \in Volumes},
          spread : Spreads, crossover : Crossovers ]

FeedBars == { b \in Bars : <<b.volume, b.vol_ma>> \in Volumes }

Configs == [ min_volume_pct_avg : { <<3, 10>> },
             max_spread_pct : { NoValue, Num(2) },
             min_holding_period : 0 .. MaxHolding ]

\* __init__: self._bars_since_trade = 0
init_bars_since_trade == 0

\* notify_trade(trade)
\* (faulty variant: every notification resets the counter)
notify_trade_any_resets(c, isclosed) == 0
notify_trade(c, isclosed) == IF isclosed THEN 0 ELSE c

\* MicrostructureStrategy.next()
\* (faulty variant: the counter is not advanced)
base_next_no_increment(c) == c
base_next(c) == c + 1

\* _liquidity_ok()
\* (faulty variant: the boundary is excluded)
liquidity_ok_strict(cfg, b) ==
    IF b.vol_ma = 0 THEN FALSE
    ELSE LET p == cfg.min_volume_pct_avg
         IN  IF b.vol_ma > 0
             THEN b.volume * p[2] > p[1] * b.vol_ma
             ELSE b.volume * p[2] < p[1] * b.vol_ma
liquidity_ok(cfg, b) ==
    IF b.vol_ma = 0 THEN FALSE
    ELSE LET p == cfg.min_volume_pct_avg
         IN  IF b.vol_ma > 0
             THEN b.volume * p[2] >= p[1] * b.vol_ma
             ELSE b.volume * p[2] <= p[1] * b.vol_ma

\* _holding_period_ok()
\* (faulty variant: strict comparison)
holding_period_ok_strict(cfg, c) == c > cfg.min_holding_period
holding_period_ok(cfg, c) == c >= cfg.min_holding_period

\* _spread_ok(): a comparison with NaN is false
spread_ok(cfg, hasind, b) ==
    IF cfg.max_spread_pct = NoValue THEN TRUE
    ELSE IF ~hasind THEN TRUE
    ELSE IF ~IsNum(b.spread) THEN FALSE
    ELSE b.spread.v <= cfg.max_spread_pct.v

\* micro_ok()
micro_ok(cfg, hasind, b, c) ==
    liquidity_ok(cfg, b) /\ holding_period_ok(cfg, c) /\ spread_ok(cfg, hasind, b)

(***************************************************************************)
(* The engine around the strategy (cerebro.run): on every bar the broker   *)
(* executes the orders submitted on the previous bar, the resulting trade  *)
(* notifications are delivered to notify_trade, and then next() runs.      *)
(***************************************************************************)
ClosedTrade == [ isclosed |-> TRUE, justopened |-> FALSE ]

OpenedTrade == [ isclosed |-> FALSE, justopened |-> TRUE ]

\* One executed order of signed size delta on a position pos: a trade is closed
\* when the position reaches or crosses zero, and one is opened when it leaves
\* zero or crosses it.
FillCloses(pos, delta) ==
    pos # 0 /\ Sign(delta) = -Sign(pos) /\ Abs(delta) >= Abs(pos)

FillOpens(pos, delta) ==
    delta # 0 /\ (pos = 0 \/ (Sign(delta) = -Sign(pos) /\ Abs(delta) > Abs(pos)))

ApplyFill(st, delta) ==
    LET closes == FillCloses(st.pos, delta)
        opens == FillOpens(st.pos, delta)
        gap == IF closes THEN 0 ELSE st.fill_gap
    IN  [ pos |-> st.pos + delta,
          notes |-> st.notes \o (IF closes THEN << ClosedTrade >> ELSE << >>)
                             \o (IF opens THEN << OpenedTrade >> ELSE << >>),
          fill_gap |-> gap,
          open_gap |-> IF opens /\ gap >= 0 THEN gap ELSE st.open_gap ]

\* The broker's pass over the pending orders, in submission order; filled[i]
\* tells whether order i is executed or rejected (margin).
RECURSIVE Execute(_, _, _, _)
Execute(st, orders, filled, i) ==
    IF i > Len(orders) THEN st
    ELSE Execute(IF filled[i] THEN ApplyFill(st, orders[i]) ELSE st,
                 orders, filled, i + 1)

\* self.close(): an order for the opposite of the current position
close_order(pos) == -pos

\* EnhancedSmaCross.next() after the gate: the orders the crossover asks for,
\* size being what the sizer returns for buy()/sell() (no order when it is 0).
entry_orders(dir, size) == IF size = 0 THEN << >> ELSE << dir * size >>

signal_orders(pos, crossover, size) ==
    IF pos = 0
    THEN IF crossover > 0 THEN entry_orders(1, size)
         ELSE IF crossover < 0 THEN entry_orders(-1, size)
         ELSE << >>
    ELSE IF crossover > 0 /\ pos < 0
         THEN << close_order(pos) >> \o entry_orders(1, size)
         ELSE IF crossover < 0 /\ pos > 0
         THEN << close_order(pos) >> \o entry_orders(-1, size)
         ELSE << >>

\* EnhancedSmaCross.next(): the orders submitted on this bar, c being the
\* counter after super().next()
\* (faulty variant: the gate is not consulted)
enhanced_next_ungated(cfg, hasind, b, c, pos, size) ==
    signal_orders(pos, b.crossover, size)
enhanced_next(cfg, hasind, b, c, pos, size) ==
    IF ~micro_ok(cfg, hasind, b, c) THEN << >>
    ELSE signal_orders(pos, b.crossover, size)

NoBar == [ volume |-> 0, vol_ma |-> 0, spread |-> NaN, crossover |-> 0 ]

NoCall == [ op |-> "init", isclosed |-> FALSE, gate |-> FALSE ]

LoopIdle ==
    /\ phase = "off"
    /\ nbars = 0
    /\ micro_cfg = [ min_volume_pct_avg |-> <<3, 10>>, max_spread_pct |-> NoValue,
                     min_holding_period |-> 0 ]
    /\ has_spread_indicator = FALSE
    /\ bars_since_trade = 0
    /\ position = 0
    /\ pending = << >>
    /\ notifications = << >>
    /\ bar = NoBar
    /\ last_call = NoCall
    /\ since_close = -1
    /\ processed = 0
    /\ fill_gap = -1
    /\ open_gap = -1

SizerIdle ==
    /\ sz_in = << >>
    /\ sz_out = [ done |-> FALSE, size |-> 0, vol |-> RNone, exposure |-> RNone ]

SpreadIdle ==
    /\ sp_in = << >>
    /\ sp_out = [ done |-> FALSE, series |-> << >> ]

CalibIdle ==
    /\ cal_in = << >>
    /\ cal_out = [ outcome |-> "idle" ]
    /\ cal_run = [ started |-> FALSE ]

InputIdle ==
    /\ csv_in = << >>
    /\ csv_out = [ done |-> FALSE, rows |-> << >> ]
    /\ vol_in = << >>
    /\ vol_out = [ done |-> FALSE, ok |-> FALSE ]

\* The strategy as constructed, before the first bar.
Init ==
    /\ phase = "broker"
    /\ nbars = 0
    /\ micro_cfg \in Configs
    /\ has_spread_indicator \in BOOLEAN
    /\ bars_since_trade = init_bars_since_trade
    /\ position = 0
    /\ pending = << >>
    /\ notifications = << >>
    /\ bar = NoBar
    /\ last_call = NoCall
    /\ since_close = -1
    /\ processed = 0
    /\ fill_gap = -1
    /\ open_gap = -1
    /\ SizerIdle
    /\ SpreadIdle
    /\ CalibIdle
    /\ InputIdle

\* A new bar arrives and the broker executes the pending orders.
BrokerNext ==
    /\ phase = "broker"
    /\ nbars < MaxBars
    /\ \E b \in FeedBars, filled \in [ 1 .. Len(pending) -> BOOLEAN ] :
          LET st == Execute([ pos |-> position, notes |-> << >>,
                              fill_gap |-> fill_gap, open_gap |-> open_gap ],
                            pending, filled, 1)
          IN  /\ bar' = b
              /\ position' = st.pos
              /\ notifications' = st.notes
              /\ fill_gap' = st.fill_gap
              /\ open_gap' = st.open_gap
    /\ pending' = << >>
    /\ phase' = "strategy"
    /\ last_call' = [ op |-> "broker", isclosed |-> FALSE, gate |-> FALSE ]
    /\ UNCHANGED << nbars, micro_cfg, has_spread_indicator, bars_since_trade,
                    since_close, processed >>
    /\ UNCHANGED << sizer_vars, spread_vars, calib_vars, input_vars >>

\* The engine delivers one trade notification.
NotifyTrade ==
    /\ phase = "strategy"
    /\ notifications # << >>
    /\ LET trade == Head(notifications)
       IN  /\ bars_since_trade' = notify_trade(bars_since_trade, trade.isclosed)
           /\ since_close' = IF trade.isclosed THEN 0 ELSE since_close
           /\ processed' = IF trade.isclosed THEN 0 ELSE processed
           /\ last_call' = [ op |-> "notify_trade", isclosed |-> trade.isclosed,
                             gate |-> FALSE ]
    /\ notifications' = Tail(notifications)
    /\ UNCHANGED << phase, nbars, micro_cfg, has_spread_indicator, position,
                    pending, bar, fill_gap, open_gap >>
    /\ UNCHANGED << sizer_vars, spread_vars, calib_vars, input_vars >>

\* The engine calls next() for the bar.
StrategyNext ==
    /\ phase = "strategy"
    /\ notifications = << >>
    /\ \E size \in 0 .. MaxSize :
          LET c == base_next(bars_since_trade)
          IN  /\ bars_since_trade' = c
              /\ pending' = enhanced_next(micro_cfg, has_spread_indicator, bar, c,
                                          position, size)
              /\ last_call' = [ op |-> "next", isclosed |-> FALSE,
                                gate |-> micro_ok(micro_cfg, has_spread_indicator,
                                                  bar, c) ]
    /\ since_close' = IF since_close >= 0 THEN since_close + 1 ELSE since_close
    /\ processed' = processed + 1
    /\ fill_gap' = IF fill_gap >= 0 THEN fill_gap + 1 ELSE fill_gap
    /\ nbars' = nbars + 1
    /\ phase' = "broker"
    /\ UNCHANGED << micro_cfg, has_spread_indicator, position, notifications,
                    bar, open_gap >>
    /\ UNCHANGED << sizer_vars, spread_vars, calib_vars, input_vars >>

Next == BrokerNext \/ NotifyTrade \/ StrategyNext

Spec == Init /\ [][Next]_vars

(***************************************************************************)
(* Claims about the strategy loop (specification Spec).                    *)
(***************************************************************************)
MinHolding == micro_cfg.min_holding_period

\* C1: for every min_holding_period k >= 1, once a closed-trade notification
\* has been delivered, holding_period_ok is false right after it and after
\* each of the next k-1 calls of next(), and true from the k-th call on, as
\* long as no other close intervenes: it is true exactly when at least k
\* calls of next() followed the last closed-trade notification.
C1_HoldingPeriodAfterClose ==
    (since_close >= 0 /\ MinHolding >= 1)
        => (holding_period_ok(micro_cfg, bars_since_trade)
                <=> since_close >= MinHolding)

\* C1 witness: k = 3, a trade was closed, and the third next() after it has
\* just made holding_period_ok true.
C1_Witness ==
    /\ MinHolding = 3
    /\ since_close = 3
    /\ last_call.op = "next"
    /\ holding_period_ok(micro_cfg, bars_since_trade)

\* C2: the counter equals the number of bars processed by next() since the
\* last closed-trade notification, or since construction when there was
\* none; a notification that is no close leaves it as it is.
C2_CounterCountsBars == bars_since_trade = processed

\* C2 witness: a trade was closed earlier, two bars were processed since, and
\* the notification of a newly opened trade has just been delivered.
C2_Witness ==
    /\ last_call.op = "notify_trade"
    /\ ~last_call.isclosed
    /\ since_close >= 0
    /\ bars_since_trade = 2

\* C3: micro_ok is the conjunction of the three filters, evaluated on the
\* counter as incremented for this bar, and a bar on which it is false
\* submits no order, whatever the crossover and the position.
C3_GateBlocksOrders ==
    last_call.op = "next"
        => /\ last_call.gate
                <=> (/\ liquidity_ok(micro_cfg, bar)
                     /\ holding_period_ok(micro_cfg, bars_since_trade)
                     /\ spread_ok(micro_cfg, has_spread_indicator, bar))
           /\ ~last_call.gate => pending = << >>

\* C3 witness: next() has run on a bar whose crossover asks to reverse a short
\* position, only the holding period fails, and nothing was submitted.
C3_Witness ==
    /\ last_call.op = "next"
    /\ ~last_call.gate
    /\ liquidity_ok(micro_cfg, bar)
    /\ spread_ok(micro_cfg, has_spread_indicator, bar)
    /\ bar.crossover = 1
    /\ position < 0
    /\ pending = << >>

\* C4: whenever a position is opened after another one was closed, at least
\* min_holding_period bars were processed between the closing fill and the
\* opening fill.
C4_HoldingBetweenPositions == open_gap = -1 \/ open_gap >= MinHolding

\* What the gate answered on the bar next() has just processed, read off the
\* other two filters: with those satisfied the gate is the remaining one.
OtherThanLiquidityOk ==
    /\ holding_period_ok(micro_cfg, bars_since_trade)
    /\ spread_ok(micro_cfg, has_spread_indicator, bar)

OtherThanSpreadOk ==
    /\ liquidity_ok(micro_cfg, bar)
    /\ holding_period_ok(micro_cfg, bars_since_trade)

OtherThanHoldingOk ==
    /\ liquidity_ok(micro_cfg, bar)
    /\ spread_ok(micro_cfg, has_spread_indicator, bar)

\* C13: the liquidity filter answers false when the average volume is 0, and
\* otherwise true exactly when volume / average >= min_volume_pct_avg, the
\* boundary included: with 0.3, (29, 100) is refused and (30, 100) accepted.
C13_LiquidityRatio ==
    (last_call.op = "next" /\ OtherThanLiquidityOk)
        => /\ bar.vol_ma = 0 => ~last_call.gate
           /\ bar.vol_ma # 0
                => (last_call.gate
                      <=> RLeq(micro_cfg.min_volume_pct_avg,
                               RNorm(<< bar.volume, bar.vol_ma >>)))
           /\ (micro_cfg.min_volume_pct_avg = << 3, 10 >>
                  /\ bar.volume = 29 /\ bar.vol_ma = 100) => ~last_call.gate
           /\ (micro_cfg.min_volume_pct_avg = << 3, 10 >>
                  /\ bar.volume = 30 /\ bar.vol_ma = 100) => last_call.gate

\* C13 witness: next() has run on a bar with volume 30 against an average of
\* 100, the gate was open and an order was submitted.
C13_Witness ==
    /\ last_call.op = "next"
    /\ bar.volume = 30 /\ bar.vol_ma = 100
    /\ micro_cfg.min_volume_pct_avg = << 3, 10 >>
    /\ last_call.gate
    /\ pending # << >>

\* C14: the spread filter answers true when max_spread_pct is unset, true
\* when the bar has no spread value (no spread indicator, or an indicator
\* whose value for the bar is undefined), and otherwise true exactly when
\* the spread is <= max_spread_pct.
C14_SpreadOkWhenUnavailable ==
    (last_call.op = "next" /\ OtherThanSpreadOk)
        => (last_call.gate
              <=> \/ micro_cfg.max_spread_pct = NoValue
                  \/ ~has_spread_indicator
                  \/ ~IsNum(bar.spread)
                  \/ bar.spread.v <= micro_cfg.max_spread_pct.v)

\* C16: before any trade has closed, the holding-period filter does not
\* block the first processed bar, whatever min_holding_period > 0 is: the
\* gate is then decided by the other two filters.
C16_FirstBarNotBlocked ==
    (last_call.op = "next" /\ nbars = 1 /\ since_close = -1 /\ MinHolding > 0)
        => /\ holding_period_ok(micro_cfg, bars_since_trade)
           /\ OtherThanHoldingOk => last_call.gate

\* C16 as amended: before any trade has closed, the filter passes on the
\* n-th processed bar exactly when n >= min_holding_period; it does not block
\* the first bar when min_holding_period <= 1 and blocks the first
\* min_holding_period - 1 bars otherwise.
C16_NthBarPassesFromMinHolding ==
    (last_call.op = "next" /\ since_close = -1)
        => /\ holding_period_ok(micro_cfg, bars_since_trade) <=> nbars >= MinHolding
           /\ OtherThanHoldingOk => (last_call.gate <=> nbars >= MinHolding)
           /\ nbars < MinHolding => pending = << >>

\* C16 witness: min_holding_period = 1, no trade has closed, and the first
\* bar, with a crossover and the other filters satisfied, submitted an order.
C16_Witness ==
    /\ last_call.op = "next"
    /\ nbars = 1
    /\ since_close = -1
    /\ MinHolding = 1
    /\ last_call.gate
    /\ bar.crossover # 0
    /\ pending # << >>

(***************************************************************************)
(* VolatilityTargetSizer (risk.py).  A request is the history of closes up *)
(* to the current bar (data.close[0] is the last one), the broker's value  *)
(* and the sizer's parameters.  A volatility is held as its square.        *)
(***************************************************************************)
MaxHist == 4
MaxLookback == 3

\* params: annualization, default
DefaultAnnualization == 252

HistoryCloses == { 1, 2 }

CurrentCloses == { -1, 0, 1, 2 }

RECURSIVE SeqsOf(_, _)
SeqsOf(S, n) ==
    IF n = 0 THEN { << >> }
    ELSE { Append(q, x) : q \in SeqsOf(S, n - 1), x \in S }

\* The closes of 1 .. MaxHist bars: positive but for the current one.
CloseHistories ==
    UNION { { Append(q, x) : q \in SeqsOf(HistoryCloses, n - 1), x \in CurrentCloses }
            : n \in 1 .. MaxHist }

SizerRequests ==
    [ closes : CloseHistories,
      equity : { -50, 50 },
      lookback : 0 .. MaxLookback,
      annualization : { 0, DefaultAnnualization },
      target_vol : { << 1, 10 >>, << 20, 1 >> },
      max_leverage : { << 2, 1 >>, << -1, 1 >> },
      contract_size : { 0, 1 },
      min_size : { 1, 30, -100 } ]

\* _estimate_ann_vol: closes = [data.close[i] for i in range(-lookback + 1, 1)]
window_closes(closes, lookback) ==
    LET n == Len(closes)
        k == IF lookback > 0 THEN lookback ELSE 0
    IN  [ i \in 1 .. k |-> closes[n - k + i] ]

\* _estimate_ann_vol: rets = np.diff(closes) / closes[:-1]
simple_returns(w) ==
    [ i \in 1 .. (IF Len(w) > 0 THEN Len(w) - 1 ELSE 0)
        |-> RNorm(<< w[i + 1] - w[i], w[i] >>) ]

\* np.nanstd(rets, ddof=1), squared: the mean, then the squared deviations
\* over len(rets) - 1; NaN when there is a single return
nanstd_sq(rets) ==
    LET m == Len(rets)
        mean == RDiv(RSum(rets, 1), RInt(m))
        dev == [ i \in 1 .. m |-> RMul(RSub(rets[i], mean), RSub(rets[i], mean)) ]
    IN  IF m - 1 <= 0 THEN RNaN ELSE RNum(RDiv(RSum(dev, 1), RInt(m - 1)))

\* _estimate_ann_vol(data): None, or the annualized volatility (squared)
\* (faulty variant: the history test is off by one)
estimate_ann_vol_short_history(closes, lookback, annualization) ==
    IF Len(closes) < lookback THEN RNone
    ELSE LET rets == simple_returns(window_closes(closes, lookback))
             var == nanstd_sq(rets)
         IN  IF Len(rets) = 0 THEN RNone
             ELSE IF var.tag = "nan" \/ var.v[1] <= 0 THEN RNone
             ELSE RNum(RMul(var.v, RInt(annualization)))
estimate_ann_vol(closes, lookback, annualization) ==
    IF Len(closes) <= lookback THEN RNone
    ELSE LET rets == simple_returns(window_closes(closes, lookback))
             var == nanstd_sq(rets)
         IN  IF Len(rets) = 0 THEN RNone
             ELSE IF var.tag = "nan" \/ var.v[1] <= 0 THEN RNone
             ELSE RNum(RMul(var.v, RInt(annualization)))

\* _getsizing: exposure = max(0.0, min(max_leverage, target_vol / ann_vol)),
\* squared, for ann_vol > 0 given as its square av2
\* (faulty variants: the ratio inverted; the leverage cap left out)
exposure_sq_inverted(target_vol, max_leverage, av2) ==
    IF max_leverage[1] <= 0 \/ target_vol[1] <= 0 THEN RInt(0)
    ELSE IF RLeq(RMul(RMul(RMul(max_leverage, max_leverage), target_vol), target_vol),
                 av2)
         THEN RMul(max_leverage, max_leverage)
         ELSE RDiv(av2, RMul(target_vol, target_vol))
exposure_sq_uncapped(target_vol, max_leverage, av2) ==
    IF target_vol[1] <= 0 THEN RInt(0)
    ELSE RDiv(RMul(target_vol, target_vol), av2)
exposure_sq(target_vol, max_leverage, av2) ==
    IF max_leverage[1] <= 0 \/ target_vol[1] <= 0 THEN RInt(0)
    ELSE IF RLeq(RMul(RMul(max_leverage, max_leverage), av2),
                 RMul(target_vol, target_vol))
         THEN RMul(max_leverage, max_leverage)
         ELSE RDiv(RMul(target_vol, target_vol), av2)

\* _getsizing: int(target_notional / contract_notional), truncation toward
\* zero, for contract_notional > 0 and the exposure given as its square
truncated_size(equity, e2, contract_notional) ==
    Sign(equity)
        * ISqrt((equity * equity * e2[1])
                    \div (e2[2] * contract_notional * contract_notional))

\* _getsizing from the volatility estimate on
\* (faulty variant: min_size is not applied)
size_from_vol_no_min(rq, price, av) ==
    IF av.tag # "num" \/ av.v[1] <= 0 THEN 0
    ELSE LET e2 == exposure_sq(rq.target_vol, rq.max_leverage, av.v)
             contract_notional == price * rq.contract_size
         IN  IF contract_notional <= 0 THEN 0
             ELSE truncated_size(rq.equity, e2, contract_notional)
size_from_vol(rq, price, av) ==
    IF av.tag # "num" \/ av.v[1] <= 0 THEN 0
    ELSE LET e2 == exposure_sq(rq.target_vol, rq.max_leverage, av.v)
             contract_notional == price * rq.contract_size
         IN  IF contract_notional <= 0 THEN 0
             ELSE LET size == truncated_size(rq.equity, e2, contract_notional)
                  IN  IF size < rq.min_size THEN 0 ELSE size

\* _getsizing(comminfo, cash, data, isbuy)
getsizing(rq) ==
    LET price == rq.closes[Len(rq.closes)]
    IN  IF price <= 0 THEN 0
        ELSE size_from_vol(rq, price,
                           estimate_ann_vol(rq.closes, rq.lookback, rq.annualization))

\* The values _getsizing holds on its way: ann_vol (squared; None also when
\* the price guard returned first) and exposure (squared; None when a guard
\* returned before it was computed).
sizing_vol(rq) ==
    IF rq.closes[Len(rq.closes)] <= 0 THEN RNone
    ELSE estimate_ann_vol(rq.closes, rq.lookback, rq.annualization)

sizing_exposure(rq) ==
    LET av == sizing_vol(rq)
    IN  IF av.tag # "num" \/ av.v[1] <= 0 THEN RNone
        ELSE RNum(exposure_sq(rq.target_vol, rq.max_leverage, av.v))

InitSizer ==
    /\ LoopIdle
    /\ SpreadIdle
    /\ CalibIdle
    /\ InputIdle
    /\ sz_in \in SizerRequests
    /\ sz_out = [ done |-> FALSE, size |-> 0, vol |-> RNone, exposure |-> RNone ]

\* The engine asks the sizer for the size of one order.
GetSizing ==
    /\ ~sz_out.done
    /\ sz_out' = [ done |-> TRUE, size |-> getsizing(sz_in),
                   vol |-> sizing_vol(sz_in), exposure |-> sizing_exposure(sz_in) ]
    /\ UNCHANGED << sz_in, loop_vars, spread_vars, calib_vars, input_vars >>

NextSizer == GetSizing

SpecSizer == InitSizer /\ [][NextSizer]_vars

(***************************************************************************)
(* Claims about the sizer (specification SpecSizer).                       *)
(***************************************************************************)
SzN == Len(sz_in.closes)

SzPrice == sz_in.closes[SzN]

\* The simple return of the close at position i of a history.
ReturnAt(closes, i) == RNorm(<< closes[i] - closes[i - 1], closes[i - 1] >>)

RECURSIVE SumReturns(_, _, _)
SumReturns(closes, first, last) ==
    IF first > last THEN RInt(0)
    ELSE RAdd(ReturnAt(closes, last), SumReturns(closes, first, last - 1))

RECURSIVE SumSquaredReturns(_, _, _)
SumSquaredReturns(closes, first, last) ==
    IF first > last THEN RInt(0)
    ELSE RAdd(RMul(ReturnAt(closes, last), ReturnAt(closes, last)),
              SumSquaredReturns(closes, first, last - 1))

\* The Bessel-corrected sample variance of the m >= 2 simple returns of the
\* last m + 1 closes: (m * sum r^2 - (sum r)^2) / (m * (m - 1)).
SampleVariance(closes, m) ==
    LET n == Len(closes)
        s1 == SumReturns(closes, n - m + 1, n)
        s2 == SumSquaredReturns(closes, n - m + 1, n)
    IN  RDiv(RSub(RMul(RInt(m), s2), RMul(s1, s1)), RInt(m * (m - 1)))

\* C5: an estimate the sizer obtained is the annualized Bessel-corrected
\* sample variance of exactly lookback simple returns, those of the last
\* lookback + 1 closes (the volatility is its square root).
C5_LookbackReturns ==
    (sz_out.done /\ sz_out.vol.tag = "num")
        => /\ Len(window_closes(sz_in.closes, sz_in.lookback)) = sz_in.lookback + 1
           /\ Len(simple_returns(window_closes(sz_in.closes, sz_in.lookback)))
                = sz_in.lookback
           /\ sz_in.lookback >= 2
           /\ sz_out.vol.v = RMul(SampleVariance(sz_in.closes, sz_in.lookback),
                                  RInt(sz_in.annualization))

\* What the code computes instead: the estimate is the annualized sample
\* variance of lookback - 1 returns, those of the last lookback closes, with
\* divisor lookback - 2.
C5_CodeUsesLookbackCloses ==
    (sz_out.done /\ sz_out.vol.tag = "num")
        => /\ Len(window_closes(sz_in.closes, sz_in.lookback)) = sz_in.lookback
           /\ sz_in.lookback >= 3
           /\ sz_out.vol.v = RMul(SampleVariance(sz_in.closes, sz_in.lookback - 1),
                                  RInt(sz_in.annualization))

\* The guard cases of the sizer, read off the request.
GuardPrice == SzPrice <= 0

GuardHistory == SzN < sz_in.lookback + 1

GuardFewReturns ==
    Len(simple_returns(window_closes(sz_in.closes, sz_in.lookback))) <= 1

GuardZeroVol ==
    /\ ~GuardPrice /\ ~GuardHistory /\ ~GuardFewReturns
    /\ \/ SampleVariance(sz_in.closes, sz_in.lookback - 1)[1] <= 0
       \/ sz_in.annualization <= 0

GuardNotional == SzPrice * sz_in.contract_size <= 0

AnyGuard ==
    GuardPrice \/ GuardHistory \/ GuardFewReturns \/ GuardZeroVol \/ GuardNotional

\* C6: in each guard case (price <= 0, fewer than lookback + 1 bars, zero or
\* one return in the window, a volatility that is zero, negative or NaN,
\* price * contract_size <= 0) the sizer returns 0.
C6_GuardsReturnZero == (sz_out.done /\ AnyGuard) => sz_out.size = 0

\* C6 witness: the call returned on a window with a single return, whose
\* standard deviation is NaN, although there is history, price and equity
\* enough for an order.
C6_Witness ==
    /\ sz_out.done
    /\ sz_out.size = 0
    /\ ~GuardPrice /\ ~GuardHistory /\ ~GuardNotional
    /\ sz_in.lookback = 2
    /\ sz_in.equity > 0
    /\ sz_in.min_size = 1

\* floor(equity * exposure / contract_notional) for the exposure given as its
\* square e2 >= 0 and contract_notional > 0.
FloorSize(equity, e2, contract_notional) ==
    LET num == equity * equity * e2[1]
        den == e2[2] * contract_notional * contract_notional
        root == ISqrt(num \div den)
        exact == num % den = 0 /\ root * root = num \div den
    IN  IF equity >= 0 THEN root
        ELSE IF exact THEN -root ELSE -(root + 1)

\* C7: when no guard applies the result is floor(equity * exposure /
\* (price * contract_size)) if that is >= min_size and 0 otherwise; and for
\* every request the result is >= 0 and never positive below min_size.
C7_FloorOrZero ==
    sz_out.done
        => /\ sz_out.size >= 0
           /\ ~(0 < sz_out.size /\ sz_out.size < sz_in.min_size)
           /\ ~AnyGuard
                => LET f == FloorSize(sz_in.equity, sz_out.exposure.v,
                                      SzPrice * sz_in.contract_size)
                   IN  sz_out.size = IF f >= sz_in.min_size THEN f ELSE 0

\* C7 as amended: the same, for every request in which equity and min_size
\* are not both negative.
C7_FloorOrZeroUnlessBothNegative ==
    (sz_out.done /\ (sz_in.equity >= 0 \/ sz_in.min_size >= 0))
        => /\ sz_out.size >= 0
           /\ ~(0 < sz_out.size /\ sz_out.size < sz_in.min_size)
           /\ ~AnyGuard
                => LET f == FloorSize(sz_in.equity, sz_out.exposure.v,
                                      SzPrice * sz_in.contract_size)
                   IN  sz_out.size = IF f >= sz_in.min_size THEN f ELSE 0

\* C7 witness: no guard applies, the quotient floors to a positive number of
\* contracts below min_size, and the sizer returned 0.
C7_Witness ==
    /\ sz_out.done
    /\ ~AnyGuard
    /\ sz_in.min_size > 1
    /\ FloorSize(sz_in.equity, sz_out.exposure.v, SzPrice * sz_in.contract_size)
          \in 1 .. (sz_in.min_size - 1)
    /\ sz_out.size = 0

\* The volatilities the estimator can hand to the sizer for this lookback:
\* those of every window of closes, under either annualization.
AltVols ==
    { estimate_ann_vol(h, sz_in.lookback, a) :
        h \in SeqsOf(HistoryCloses, MaxHist), a \in { 0, DefaultAnnualization } }

SizeForVol(av) == size_from_vol(sz_in, SzPrice, av)

\* C8: with price, equity and the parameters fixed, a volatility that is at
\* least the one of this request never gets a larger size.
C8_MonotoneInVol ==
    (sz_out.done /\ ~GuardPrice /\ sz_out.vol.tag = "num")
        => \A av \in AltVols :
              (av.tag = "num" /\ RLeq(sz_out.vol.v, av.v))
                  => sz_out.size >= SizeForVol(av)

\* C8 as amended: the same for positive volatilities, in every request in
\* which equity and min_size are not both negative.
C8_MonotoneInPositiveVol ==
    (/\ sz_out.done /\ ~GuardPrice
     /\ sz_out.vol.tag = "num" /\ sz_out.vol.v[1] > 0
     /\ (sz_in.equity >= 0 \/ sz_in.min_size >= 0))
        => \A av \in AltVols :
              (av.tag = "num" /\ RLeq(sz_out.vol.v, av.v))
                  => sz_out.size >= SizeForVol(av)

\* C8 witness: the request got a positive size below the leverage cap, and a
\* higher volatility gets a strictly smaller one.
C8_Witness ==
    /\ sz_out.done /\ ~GuardPrice
    /\ sz_out.vol.tag = "num"
    /\ sz_out.size > 0
    /\ \E av \in AltVols :
          /\ av.tag = "num"
          /\ RLt(sz_out.vol.v, av.v)
          /\ SizeForVol(av) > 0
          /\ SizeForVol(av) < sz_out.size

\* C9: for a positive volatility the exposure is between 0 and max_leverage,
\* whatever target_vol and max_leverage are.
C9_ExposureWithinLeverage ==
    (sz_out.done /\ sz_out.exposure.tag = "num")
        => /\ sz_in.max_leverage[1] >= 0
           /\ sz_out.exposure.v[1] >= 0
           /\ RLeq(sz_out.exposure.v, RMul(sz_in.max_leverage, sz_in.max_leverage))

\* C9 as amended: for a positive volatility and max_leverage >= 0 the
\* exposure is between 0 and max_leverage.
C9_ExposureWithinNonNegLeverage ==
    (sz_out.done /\ sz_out.exposure.tag = "num" /\ sz_in.max_leverage[1] >= 0)
        => /\ sz_out.exposure.v[1] >= 0
           /\ RLeq(sz_out.exposure.v, RMul(sz_in.max_leverage, sz_in.max_leverage))

\* C9 witness: target_vol / ann_vol exceeds a positive max_leverage and the
\* exposure is max_leverage.
C9_Witness ==
    /\ sz_out.done
    /\ sz_out.exposure.tag = "num"
    /\ sz_in.max_leverage[1] > 0
    /\ RLt(RMul(RMul(sz_in.max_leverage, sz_in.max_leverage), sz_out.vol.v),
           RMul(sz_in.target_vol, sz_in.target_vol))
    /\ sz_out.exposure.v = RMul(sz_in.max_leverage, sz_in.max_leverage)
    /\ sz_out.size > 0

\* C17: whenever the sizer returns size > 0 with equity > 0 and
\* max_leverage >= 0, the notional of the order is within the leverage cap:
\* size * price * contract_size <= equity * max_leverage, whatever the
\* volatility and target_vol are.
C17_NotionalWithinLeverage ==
    (/\ sz_out.done /\ sz_out.size > 0
     /\ sz_in.equity > 0 /\ sz_in.max_leverage[1] >= 0)
        => sz_out.size * SzPrice * sz_in.contract_size * sz_in.max_leverage[2]
              <= sz_in.equity * sz_in.max_leverage[1]

\* C17 witness: target_vol / ann_vol exceeds max_leverage, and the order's
\* notional is exactly equity * max_leverage.
C17_Witness ==
    /\ sz_out.done /\ sz_out.size > 0
    /\ sz_in.equity > 0 /\ sz_in.max_leverage[1] > 0
    /\ sz_out.vol.tag = "num"
    /\ RLt(RMul(RMul(sz_in.max_leverage, sz_in.max_leverage), sz_out.vol.v),
           RMul(sz_in.target_vol, sz_in.target_vol))
    /\ sz_out.size * SzPrice * sz_in.contract_size * sz_in.max_leverage[2]
          = sz_in.equity * sz_in.max_leverage[1]

(***************************************************************************)
(* estimate_highlow_spread (execution.py).  The frame is a sequence of     *)
(* rows <<High, Low>>; an entry of the series is a rational or NaN.        *)
(***************************************************************************)
MaxRows == 2

RowPrices == { -1, 0, 1, 3 }

Frames == UNION { SeqsOf(RowPrices \X RowPrices, n) : n \in 0 .. MaxRows }

\* A float division x / y: by zero it gives NaN for 0 / 0 and an infinity
\* otherwise.
RInf == [ tag |-> "inf", v |-> << 0, 1 >> ]

RNegInf == [ tag |-> "-inf", v |-> << 0, 1 >> ]

float_div(x, y) ==
    IF y[1] # 0 THEN RNum(RDiv(x, y))
    ELSE IF x[1] = 0 THEN RNaN
    ELSE IF x[1] > 0 THEN RInf ELSE RNegInf

\* spread.replace([np.inf, -np.inf], np.nan)
replace_inf(x) == IF x.tag \in { "inf", "-inf" } THEN RNaN ELSE x

\* One entry: avg = (h + l) / 2.0; spread = (h - l) / avg
\* (faulty variant: an undefined entry is filled with 0)
spread_entry_zero_filled(h, l) ==
    LET avg == RDiv(RInt(h + l), RInt(2))
        x == replace_inf(float_div(RInt(h - l), avg))
    IN  IF x.tag = "nan" THEN RNum(RInt(0)) ELSE x
spread_entry(h, l) ==
    LET avg == RDiv(RInt(h + l), RInt(2))
    IN  replace_inf(float_div(RInt(h - l), avg))

\* estimate_highlow_spread(df)
estimate_highlow_spread(df) ==
    [ i \in 1 .. Len(df) |-> spread_entry(df[i][1], df[i][2]) ]

InitSpread ==
    /\ LoopIdle
    /\ SizerIdle
    /\ CalibIdle
    /\ InputIdle
    /\ sp_in \in Frames
    /\ sp_out = [ done |-> FALSE, series |-> << >> ]

\* The spread series of the frame is estimated.
EstimateSpread ==
    /\ ~sp_out.done
    /\ sp_out' = [ done |-> TRUE, series |-> estimate_highlow_spread(sp_in) ]
    /\ UNCHANGED << sp_in, loop_vars, sizer_vars, calib_vars, input_vars >>

NextSpread == EstimateSpread

SpecSpread == InitSpread /\ [][NextSpread]_vars

(***************************************************************************)
(* Claims about the spread estimate (specification SpecSpread).            *)
(***************************************************************************)
RowHigh(i) == sp_in[i][1]

RowLow(i) == sp_in[i][2]

\* C10: for every row with H >= L >= 0 and H + L > 0 the entry s satisfies
\* 0 <= s < 2, and s = 0 exactly when H = L; a row with H + L = 0 has an
\* undefined entry; the series is as long as the frame.
C10_SpreadBelowTwo ==
    sp_out.done
        => /\ Len(sp_out.series) = Len(sp_in)
           /\ \A i \in 1 .. Len(sp_in) :
                 LET s == sp_out.series[i]
                 IN  /\ RowHigh(i) + RowLow(i) = 0 => s.tag = "nan"
                     /\ (RowHigh(i) >= RowLow(i) /\ RowLow(i) >= 0
                            /\ RowHigh(i) + RowLow(i) > 0)
                          => /\ s.tag = "num"
                             /\ RLeq(RInt(0), s.v)
                             /\ RLt(s.v, RInt(2))
                             /\ s.v[1] = 0 <=> RowHigh(i) = RowLow(i)

\* C10 as amended: 0 <= s <= 2, with s = 2 exactly when L = 0 (so s < 2
\* whenever L > 0); the rest as claimed.
C10_SpreadAtMostTwo ==
    sp_out.done
        => /\ Len(sp_out.series) = Len(sp_in)
           /\ \A i \in 1 .. Len(sp_in) :
                 LET s == sp_out.series[i]
                 IN  /\ RowHigh(i) + RowLow(i) = 0 => s.tag = "nan"
                     /\ (RowHigh(i) >= RowLow(i) /\ RowLow(i) >= 0
                            /\ RowHigh(i) + RowLow(i) > 0)
                          => /\ s.tag = "num"
                             /\ RLeq(RInt(0), s.v)
                             /\ RLeq(s.v, RInt(2))
                             /\ REq(s.v, RInt(2)) <=> RowLow(i) = 0
                             /\ s.v[1] = 0 <=> RowHigh(i) = RowLow(i)

\* C10 witness: a frame with a row H > L = 0, whose entry is 2, and a row
\* H = L = 0, whose entry is undefined.
C10_Witness ==
    /\ sp_out.done
    /\ Len(sp_in) = 2
    /\ RowHigh(1) > 0 /\ RowLow(1) = 0
    /\ REq(sp_out.series[1].v, RInt(2))
    /\ RowHigh(2) = 0 /\ RowLow(2) = 0
    /\ sp_out.series[2].tag = "nan"

(***************************************************************************)
(* calibrate_execution_params (execution.py) and the start of the run      *)
(* (run_backtest, enchanced_bot.py).  A float is a rational or NaN.        *)
(***************************************************************************)
CommissionArgs == { << 0, 1 >>, << 1, 1000 >> }

MultiplierArgs == { << 1, 2 >>, << 1, 1 >> }

CalibRequests ==
    [ df : Frames, commission_perc : CommissionArgs,
      slippage_multiplier : MultiplierArgs ]

\* Series.dropna()
dropna(series) == SelectSeq(series, LAMBDA x : x.tag # "nan")

\* float(Series.mean()): NaN for a series without entries
series_mean(series) ==
    IF Len(series) = 0 THEN RNaN
    ELSE RNum(RDiv(RSum([ i \in 1 .. Len(series) |-> series[i].v ], 1),
                   RInt(Len(series))))

\* x * r and x / r for a float x and a finite r # 0: NaN stays NaN
float_times(x, r) == IF x.tag = "num" THEN RNum(RMul(x.v, r)) ELSE x

float_over(x, r) == IF x.tag = "num" THEN RNum(RDiv(x.v, r)) ELSE x

\* calibrate_execution_params(df, commission_perc, slippage_multiplier)
\* (faulty variant: the slippage is taken from the whole spread)
calibrate_execution_params_whole_spread(rq) ==
    LET mean_spread == series_mean(dropna(estimate_highlow_spread(rq.df)))
        half_spread == float_over(mean_spread, RInt(2))
    IN  [ outcome |-> "returned",
          mean_spread_pct |-> mean_spread,
          half_spread_pct |-> half_spread,
          slippage_perc |-> float_times(mean_spread, rq.slippage_multiplier),
          commission_perc |-> RNum(rq.commission_perc) ]
calibrate_execution_params(rq) ==
    LET mean_spread == series_mean(dropna(estimate_highlow_spread(rq.df)))
        half_spread == float_over(mean_spread, RInt(2))
    IN  [ outcome |-> "returned",
          mean_spread_pct |-> mean_spread,
          half_spread_pct |-> half_spread,
          slippage_perc |-> float_times(half_spread, rq.slippage_multiplier),
          commission_perc |-> RNum(rq.commission_perc) ]

InitCalib ==
    /\ LoopIdle
    /\ SizerIdle
    /\ SpreadIdle
    /\ InputIdle
    /\ cal_in \in CalibRequests
    /\ cal_out = [ outcome |-> "pending" ]
    /\ cal_run = [ started |-> FALSE ]

\* run_backtest step 3: exec_params = calibrate_execution_params(df, ...)
Calibrate ==
    /\ cal_out.outcome = "pending"
    /\ cal_out' = calibrate_execution_params(cal_in)
    /\ UNCHANGED << cal_in, cal_run, loop_vars, sizer_vars, spread_vars, input_vars >>

\* run_backtest steps 4 on: the broker is given the commission and the
\* slippage, and cerebro.run() simulates the bars.
StartRun ==
    /\ cal_out.outcome = "returned"
    /\ ~cal_run.started
    /\ cal_run' = [ started |-> TRUE,
                    commission |-> cal_out.commission_perc,
                    slippage_perc |-> cal_out.slippage_perc ]
    /\ UNCHANGED << cal_in, cal_out, loop_vars, sizer_vars, spread_vars, input_vars >>

NextCalib == Calibrate \/ StartRun

SpecCalib == InitCalib /\ [][NextCalib]_vars

(***************************************************************************)
(* Claims about the calibration (specification SpecCalib).                 *)
(***************************************************************************)
\* The rows of the frame whose spread is defined: those with H + L # 0.
DefinedRows == { i \in 1 .. Len(cal_in.df) : cal_in.df[i][1] + cal_in.df[i][2] # 0 }

\* (H - L) / ((H + L) / 2) of a row with H + L # 0
RowSpread(i) ==
    RNorm(<< 2 * (cal_in.df[i][1] - cal_in.df[i][2]),
             cal_in.df[i][1] + cal_in.df[i][2] >>)

RECURSIVE SumRowSpreads(_)
SumRowSpreads(rows) ==
    IF rows = { } THEN RInt(0)
    ELSE LET i == CHOOSE j \in rows : TRUE
         IN  RAdd(RowSpread(i), SumRowSpreads(rows \ { i }))

CalibEnded == cal_out.outcome \notin { "idle", "pending" }

\* C11: when no defined spread sample remains (no bar, or H + L = 0 on every
\* bar) the calibration fails with InsufficientDataError and returns no
\* parameters, and the run is not started.
C11_NoSampleRaises ==
    (CalibEnded /\ DefinedRows = { })
        => /\ cal_out.outcome = "InsufficientDataError"
           /\ ~cal_run.started

\* C12: with at least one defined spread the calibration returns
\* mean_spread_pct = the mean of the defined per-bar spreads, half_spread_pct
\* = mean / 2, slippage = half * slippage_multiplier and the commission it
\* was given; when H = L > 0 on every bar the mean and the slippage are 0.
C12_MeanOfDefinedSpreads ==
    (CalibEnded /\ DefinedRows # { })
        => /\ cal_out.outcome = "returned"
           /\ cal_out.mean_spread_pct.tag = "num"
           /\ REq(RMul(cal_out.mean_spread_pct.v, RInt(Cardinality(DefinedRows))),
                  SumRowSpreads(DefinedRows))
           /\ cal_out.half_spread_pct.tag = "num"
           /\ REq(RMul(cal_out.half_spread_pct.v, RInt(2)), cal_out.mean_spread_pct.v)
           /\ cal_out.slippage_perc.tag = "num"
           /\ REq(cal_out.slippage_perc.v,
                  RMul(cal_out.half_spread_pct.v, cal_in.slippage_multiplier))
           /\ cal_out.commission_perc = RNum(cal_in.commission_perc)
           /\ (\A i \in 1 .. Len(cal_in.df) :
                  cal_in.df[i][1] = cal_in.df[i][2] /\ cal_in.df[i][1] > 0)
                => /\ cal_out.mean_spread_pct.v[1] = 0
                   /\ cal_out.slippage_perc.v[1] = 0

\* C12 witness: a frame with an undefined row and a row of positive spread
\* was calibrated with a commission, and the run was started on the result.
C12_Witness ==
    /\ cal_run.started
    /\ Len(cal_in.df) = 2
    /\ Cardinality(DefinedRows) = 1
    /\ cal_out.mean_spread_pct.tag = "num"
    /\ cal_out.mean_spread_pct.v[1] > 0
    /\ cal_in.commission_perc[1] > 0
    /\ cal_run.slippage_perc = cal_out.slippage_perc

(***************************************************************************)
(* The entry points on malformed input: prepare_csv (utils.py) on rows out *)
(* of order or with missing values, _liquidity_ok on a negative volume and *)
(* _getsizing on a negative price.  A row of the file is <<datetime,       *)
(* value>>, value standing for its OHLCV columns.                          *)
(***************************************************************************)
MaxCsvRows == 2

Timestamps == 1 .. MaxCsvRows

CsvValues == { NaN, Num(-1), Num(1) }

CsvFrames == UNION { SeqsOf(Timestamps \X CsvValues, n) : n \in 0 .. MaxCsvRows }

\* df_clean.dropna()
dropna_rows(rows) == SelectSeq(rows, LAMBDA r : IsNum(r[2]))

\* df_clean.sort_values("datetime"): the rows in ascending datetime; the
\* order of rows with the same datetime is left to the sort
sort_values(rows) ==
    LET n == Len(rows)
        orders == { f \in [ 1 .. n -> 1 .. n ] :
                      /\ \A i, j \in 1 .. n : i # j => f[i] # f[j]
                      /\ \A i, j \in 1 .. n :
                            i < j => rows[f[i]][1] <= rows[f[j]][1] }
    IN  { [ i \in 1 .. n |-> rows[f[i]] ] : f \in orders }

\* prepare_csv: the rows it may write
prepare_csv(rows) == sort_values(dropna_rows(rows))

\* run_backtest: MicrostructureConfig(min_volume_pct_avg=0.3,
\* max_spread_pct=None, min_holding_period=1)
RunConfig ==
    [ min_volume_pct_avg |-> << 3, 10 >>, max_spread_pct |-> NoValue,
      min_holding_period |-> 1 ]

VolumeInputs == [ volume : { -30, 30 }, vol_ma : { -100, 100 } ]

\* Sizing requests on a history of MaxHist closes that has a volatility, the
\* current close being any of CurrentCloses.
InputRequests ==
    [ closes : { [ i \in 1 .. MaxHist |->
                     IF i = MaxHist THEN x ELSE IF i = 1 THEN 2 ELSE 1 ]
                 : x \in CurrentCloses },
      equity : { 50 },
      lookback : { MaxLookback },
      annualization : { DefaultAnnualization },
      target_vol : { << 20, 1 >> },
      max_leverage : { << 2, 1 >> },
      contract_size : { 1 },
      min_size : { 1 } ]

InitInput ==
    /\ LoopIdle
    /\ SpreadIdle
    /\ CalibIdle
    /\ csv_in \in CsvFrames
    /\ csv_out = [ done |-> FALSE, rows |-> << >> ]
    /\ vol_in \in VolumeInputs
    /\ vol_out = [ done |-> FALSE, ok |-> FALSE ]
    /\ sz_in \in InputRequests
    /\ sz_out = [ done |-> FALSE, size |-> 0, vol |-> RNone, exposure |-> RNone ]

\* run_backtest step 1: clean_path = prepare_csv(...)
PrepareCsv ==
    /\ ~csv_out.done
    /\ \E rows \in prepare_csv(csv_in) :
          csv_out' = [ done |-> TRUE, rows |-> rows ]
    /\ UNCHANGED << csv_in, vol_in, vol_out, loop_vars, sizer_vars, spread_vars,
                    calib_vars >>

\* micro_ok() asks _liquidity_ok() about the bar.
LiquidityCheck ==
    /\ ~vol_out.done
    /\ vol_in # << >>
    /\ vol_out' = [ done |-> TRUE, ok |-> liquidity_ok(RunConfig, vol_in) ]
    /\ UNCHANGED << csv_in, csv_out, vol_in, loop_vars, sizer_vars, spread_vars,
                    calib_vars >>

NextInput == PrepareCsv \/ LiquidityCheck \/ GetSizing

SpecInput == InitInput /\ [][NextInput]_vars

(***************************************************************************)
(* Claims about malformed input (specification SpecInput).                 *)
(***************************************************************************)
NonMonotonic(rows) ==
    \E i, j \in 1 .. Len(rows) : i < j /\ rows[i][1] > rows[j][1]

Occurrences(rows, r) == Cardinality({ i \in 1 .. Len(rows) : rows[i] = r })

\* C15: a bar with a negative price, a bar with a negative volume, or rows
\* with non-monotonic timestamps raise InvalidInputError: the call that meets
\* them does not return, nothing is silently skipped or reordered, and no
\* zero-size decision comes out of it.
C15_InvalidInputRaises ==
    /\ sz_in.closes[Len(sz_in.closes)] < 0 => ~sz_out.done
    /\ vol_in.volume < 0 => ~vol_out.done
    /\ NonMonotonic(dropna_rows(csv_in)) => ~csv_out.done

\* What the code does instead, each call returning normally: on a negative
\* current close the sizer returns 0; a negative volume gets the ratio test
\* of any volume (refused against a positive average); prepare_csv writes
\* the rows without missing value, those with negative values included, in
\* ascending datetime order, whatever order it read them in.
C15_CodeHandlesSilently ==
    /\ (sz_out.done /\ sz_in.closes[Len(sz_in.closes)] < 0) => sz_out.size = 0
    /\ (vol_out.done /\ vol_in.volume < 0)
          => (vol_out.ok
                <=> /\ vol_in.vol_ma < 0
                    /\ RLeq(RunConfig.min_volume_pct_avg,
                            RNorm(<< vol_in.volume, vol_in.vol_ma >>)))
    /\ csv_out.done
          => /\ ~NonMonotonic(csv_out.rows)
             /\ \A r \in Timestamps \X CsvValues :
                   Occurrences(csv_out.rows, r)
                      = IF IsNum(r[2]) THEN Occurrences(csv_in, r) ELSE 0

====
